---- MODULE Spec2Model ----
(***************************************************************************)
(* Model of nkms/policy/models.py: Contract, PolicyGroup, Policy,          *)
(* TreasureMap and WorkOrder.                                              *)
(*                                                                         *)
(* Byte strings are sequences of atoms.  An atom stands for one field of   *)
(* the wire formats (a public key, a signature, a digest, a ciphertext, a  *)
(* msgpack object or a literal); a fixed-width field is one atom wide.     *)
(* Cryptography is symbolic: a signature names its signer and the signed   *)
(* message, a ciphertext names its recipient and its cleartext, a digest   *)
(* names its input.                                                        *)
(***************************************************************************)
EXTENDS Integers, Sequences, FiniteSets, TLC

\* ------------------------------------------------------------------------
\* Bounds of the model
\* ------------------------------------------------------------------------
MaxN == 3            \* number of kfrags of the Policy (len(self.kfrags))
MaxContracts == 1    \* Contract objects craft_offer may create
MaxPublish == 1      \* entries kept of the DHT's log of set calls
MaxPfrags == 2       \* pfrags a work order may ask for

\* ------------------------------------------------------------------------
\* Actors and values
\* ------------------------------------------------------------------------
Alice == "alice"
Bob == "bob"
Mallory == "mallory"
Ursulas == {"ursula1", "ursula2"}
None == "None"
Uri == <<[t |-> "uri", a |-> "", n |-> 0, m |-> <<>>]>>

UNKNOWN_KFRAG == 0
kfrags == [i \in 1..MaxN |-> i]
Deposits == {10}
Expirations == {1}

\* ------------------------------------------------------------------------
\* Bytes
\* ------------------------------------------------------------------------
Atom(t, a, n, m) == [t |-> t, a |-> a, n |-> n, m |-> m]

\* b"..." literals of the source
Literal(s) == <<Atom(s, "", 0, <<>>)>>

\* bytes(actor.seal): the actor's public signing key
SealBytes(actor) == <<Atom("PublicKey", actor, 0, <<>>)>>

\* actor.seal(message): the actor's signature over message
SealSign(actor, message) == <<Atom("Signature", actor, 0, message)>>

\* bytes(kfrag)
KFragBytes(k) == <<Atom("KFrag", "", k, <<>>)>>

\* bytes(pfrag)
PFragBytes(p) == <<Atom("PFrag", "", p, <<>>)>>

keccak_digest(message) == <<Atom("keccak", "", 0, message)>>

\* msgpack.dumps of a bytes object: one bin object carrying its length
msgpack_dumps(b) == <<Atom("msgpack.bin", "", Len(b), b)>>

\* msgpack.dumps of a list or tuple of bytes objects
msgpack_dumps_list(bs) ==
    <<Atom("msgpack.array", "", Len(bs), [i \in 1..Len(bs) |-> msgpack_dumps(bs[i])[1]])>>

\* ursula.interface_dht_key()
interface_dht_key(ursula) == <<Atom("dht_key", ursula, 0, <<>>)>>

\* actor.encrypt_for(recipient, cleartext) -> (ciphertext, signature); the
\* signature is on the cleartext and travels inside the ciphertext
encrypt_for(actor, recipient, cleartext) ==
    [ciphertext |-> <<Atom("Ciphertext", recipient, 0, SealSign(actor, cleartext) \o cleartext)>>,
     signature |-> SealSign(actor, cleartext)]

\* msgpack.loads of one bin object: the bytes it carries
msgpack_loads(b) ==
    IF Len(b) = 1 /\ b[1].t = "msgpack.bin"
    THEN [exc |-> None, value |-> b[1].m]
    ELSE [exc |-> "UnpackException", value |-> <<>>]

\* msgpack.loads of one array object: the list of the bytes its items carry
msgpack_loads_list(b) ==
    IF Len(b) = 1 /\ b[1].t = "msgpack.array"
    THEN [exc |-> None, value |-> [i \in 1..Len(b[1].m) |-> b[1].m[i].m]]
    ELSE [exc |-> "UnpackException", value |-> <<>>]

\* BytestringSplitter(T1, ..., Tk)(payload, return_remainder=True): the first
\* k fields and the rest; a payload shorter than the fixed fields is refused
BytestringSplitter(k, payload) ==
    IF Len(payload) < k
    THEN [exc |-> "MalformedPayload", fields |-> <<>>, remainder |-> <<>>]
    ELSE [exc |-> None, fields |-> SubSeq(payload, 1, k),
          remainder |-> SubSeq(payload, k + 1, Len(payload))]

\* signature.verify(message, pubkey), on the signature and public key fields
SignatureVerify(signature, message, pubkey) ==
    /\ signature.t = "Signature"
    /\ pubkey.t = "PublicKey"
    /\ signature.a = pubkey.a
    /\ signature.m = message

\* ------------------------------------------------------------------------
\* Contract
\* ------------------------------------------------------------------------
\* Contract.__init__(alice, expiration, deposit=None, ursula=None,
\*                   kfrag=UNKNOWN_KFRAG, alices_signature=None,
\*                   encrypted_challenge_pack=None)
ContractInit(alice, expiration, deposit, ursula, kfrag, encrypted_challenge_pack) ==
    [alice |-> alice, expiration |-> expiration, deposit |-> deposit,
     ursula |-> ursula, kfrag |-> kfrag,
     encrypted_challenge_pack |-> encrypted_challenge_pack,
     negotiation_result |-> None]

\* Contract.activate(kfrag, ursula, negotiation_result)
activate(contract, kfrag, ursula, negotiation_result) ==
    [contract EXCEPT !.kfrag = kfrag, !.ursula = ursula,
                     !.negotiation_result = negotiation_result]

\* Contract.payload()
ContractPayload(contract) ==
    KFragBytes(contract.kfrag) \o Literal("This might be a ChallengePack")

\* Contract.encrypt_payload_for_ursula()
encrypt_payload_for_ursula(contract) ==
    encrypt_for(contract.alice, contract.ursula, ContractPayload(contract)).ciphertext

\* ursula.verify_from(alice, ciphertext, decrypt=True,
\* signature_is_on_cleartext=True) -> (verified, cleartext): ursula decrypts
\* what was encrypted for her and checks the signature that leads the cleartext
verify_from(ursula, alice, ciphertext) ==
    IF ~(Len(ciphertext) = 1 /\ ciphertext[1].t = "Ciphertext" /\ ciphertext[1].a = ursula)
    THEN [exc |-> "DecryptionError", verified |-> FALSE, cleartext |-> <<>>]
    ELSE LET cleartext == ciphertext[1].m
         IN [exc |-> None,
             verified |-> /\ Len(cleartext) >= 1
                          /\ SignatureVerify(cleartext[1], Tail(cleartext), SealBytes(alice)[1]),
             cleartext |-> cleartext]

NoContractObject == ContractInit(None, 0, 0, None, UNKNOWN_KFRAG, None)

\* a call of Contract with keyword arguments only: expiration has no default,
\* so a call that does not give it raises TypeError
ContractFromKeywords(kw) ==
    IF "expiration" \notin DOMAIN kw
    THEN [exc |-> "TypeError", contract |-> NoContractObject]
    ELSE [exc |-> None,
          contract |-> ContractInit(kw.alice, kw.expiration, None, None, kw.kfrag,
                                    kw.encrypted_challenge_pack)]

\* Contract.from_ursula(group_payload, ursula)
from_ursula(group_payload, ursula) ==
    LET split == BytestringSplitter(1, group_payload)
        payload_encrypted_for_ursula == msgpack_loads(split.remainder)
        alice == split.fields[1].a
        v == verify_from(ursula, alice, payload_encrypted_for_ursula.value)
        \* if not verified: pass
        signed == BytestringSplitter(1, v.cleartext)
        policy_payload == BytestringSplitter(1, signed.remainder)
        made == ContractFromKeywords([alice |-> alice,
                                      alices_signature |-> signed.fields,
                                      kfrag |-> policy_payload.fields[1].n,
                                      encrypted_challenge_pack |-> policy_payload.remainder])
        failed(exc, learned, checked, verified) ==
            [exc |-> exc, learned |-> learned, checked |-> checked, verified |-> verified,
             contract |-> NoContractObject]
    IN IF split.exc # None THEN failed(split.exc, None, FALSE, FALSE)
       ELSE IF payload_encrypted_for_ursula.exc # None
            THEN failed(payload_encrypted_for_ursula.exc, None, FALSE, FALSE)
       ELSE IF v.exc # None THEN failed(v.exc, alice, FALSE, FALSE)
       ELSE IF signed.exc # None THEN failed(signed.exc, alice, TRUE, v.verified)
       ELSE IF policy_payload.exc # None
            THEN failed(policy_payload.exc, alice, TRUE, v.verified)
       ELSE [exc |-> made.exc, learned |-> alice, checked |-> TRUE, verified |-> v.verified,
             contract |-> made.contract]

\* what enact sends for a contract, lines 264-265:
\* self.alice.seal + msgpack.dumps(contract.encrypt_payload_for_ursula())
FullPayload(contract) ==
    SealBytes(contract.alice) \o msgpack_dumps(encrypt_payload_for_ursula(contract))

\* ------------------------------------------------------------------------
\* Policy
\* ------------------------------------------------------------------------
NoContract == 0

\* PolicyGroup.hash
hash(message) == keccak_digest(message)

\* Policy.hrac_for(alice, bob, uri)
hrac_for(alice, bob, uri) == hash(SealBytes(alice) \o SealBytes(bob) \o uri)

\* Policy.hrac()
hrac == hrac_for(Alice, Bob, Uri)

\* Policy.craft_offer(deposit, expiration): Contract(self.alice, deposit, expiration)
\* passes its arguments by position
craft_offer(deposit, expiration) ==
    ContractInit(Alice, deposit, expiration, None, UNKNOWN_KFRAG, None)

\* ------------------------------------------------------------------------
\* WorkOrder
\* ------------------------------------------------------------------------
\* WorkOrder.__init__(bob, kfrag_hrac, pfrags, receipt_bytes, receipt_signature,
\*                    ursula_id=None)
WorkOrderInit(bob, kfrag_hrac, pfrags, receipt_bytes, receipt_signature, ursula_id) ==
    [bob |-> bob, kfrag_hrac |-> kfrag_hrac, pfrags |-> pfrags,
     receipt_bytes |-> receipt_bytes, receipt_signature |-> receipt_signature,
     ursula_id |-> ursula_id]

NoWorkOrder == WorkOrderInit(None, <<>>, <<>>, <<>>, <<>>, <<>>)

\* WorkOrder.constructed_by_bob(kfrag_hrac, pfrags, ursula_dht_key, bob)
constructed_by_bob(kfrag_hrac, pfrags, ursula_dht_key, bob) ==
    LET receipt_bytes == Literal("wo:") \o ursula_dht_key
        receipt_signature == SealSign(bob, receipt_bytes)
    IN WorkOrderInit(bob, kfrag_hrac, pfrags, receipt_bytes, receipt_signature, ursula_dht_key)

\* lines 360-361 with the pfrags packed last first
PackedReceiptAndPfragsReversed(receipt_bytes, pfrags) ==
    LET pfrags_as_bytes ==
            [i \in 1..Len(pfrags) |-> PFragBytes(pfrags[Len(pfrags) + 1 - i])]
    IN msgpack_dumps_list(<<receipt_bytes, msgpack_dumps_list(pfrags_as_bytes)>>)

\* the remainder of a work order payload:
\* msgpack.dumps((receipt_bytes, msgpack.dumps(pfrags_as_bytes)))
PackedReceiptAndPfrags(receipt_bytes, pfrags) ==
    LET pfrags_as_bytes == [i \in 1..Len(pfrags) |-> PFragBytes(pfrags[i])]
    IN msgpack_dumps_list(<<receipt_bytes, msgpack_dumps_list(pfrags_as_bytes)>>)

\* WorkOrder.payload()
WorkOrderPayload(wo) ==
    wo.receipt_signature \o SealBytes(wo.bob)
        \o PackedReceiptAndPfrags(wo.receipt_bytes, wo.pfrags)

\* the fields from_rest_payload reads off rest_payload, lines 349-352:
\* signature, bob_pubkey_sig, (receipt_bytes, packed_pfrags) and the pfrags
WorkOrderFields(rest_payload) ==
    LET split == BytestringSplitter(2, rest_payload)
        remainder == msgpack_loads_list(split.remainder)
        packed_pfrags == msgpack_loads_list(remainder.value[2])
    IN IF split.exc # None THEN [exc |-> split.exc]
       ELSE IF remainder.exc # None THEN [exc |-> remainder.exc]
       ELSE IF Len(remainder.value) # 2 THEN [exc |-> "UnpackException"]
       ELSE IF packed_pfrags.exc # None THEN [exc |-> packed_pfrags.exc]
       ELSE [exc |-> None,
             signature |-> split.fields[1],
             bob_pubkey_sig |-> split.fields[2],
             receipt_bytes |-> remainder.value[1],
             pfrags |-> [i \in 1..Len(packed_pfrags.value) |-> packed_pfrags.value[i][1].n]]

\* lines 353-357 with the result of the verification left unread
from_rest_payload_unverified(kfrag_hrac, rest_payload) ==
    LET f == WorkOrderFields(rest_payload)
    IN IF f.exc # None
       THEN [exc |-> f.exc, wo |-> NoWorkOrder]
       ELSE [exc |-> None,
             wo |-> WorkOrderInit(f.bob_pubkey_sig.a, kfrag_hrac, f.pfrags,
                                  f.receipt_bytes, <<f.signature>>, <<>>)]

\* WorkOrder.from_rest_payload(kfrag_hrac, rest_payload)
from_rest_payload(kfrag_hrac, rest_payload) ==
    LET f == WorkOrderFields(rest_payload)
    IN IF f.exc # None
       THEN [exc |-> f.exc, wo |-> NoWorkOrder]
       ELSE LET verified == SignatureVerify(f.signature, f.receipt_bytes, f.bob_pubkey_sig)
            IN IF ~verified
               THEN \* raise ValueError("This doesn't appear to be from Bob.")
                    [exc |-> "ValueError", wo |-> NoWorkOrder]
               ELSE [exc |-> None,
                     wo |-> WorkOrderInit(f.bob_pubkey_sig.a, kfrag_hrac, f.pfrags,
                                          f.receipt_bytes, <<f.signature>>, <<>>)]

\* lines 335-336 comparing every attribute of the two work orders
WorkOrderEqAllAttributes(wo, other) == wo = other

\* WorkOrder.__eq__(other)
WorkOrderEq(wo, other) ==
    /\ wo.receipt_bytes = other.receipt_bytes
    /\ wo.receipt_signature = other.receipt_signature

\* WorkOrder.__len__()
WorkOrderLen(wo) == Len(wo.pfrags)

\* WorkOrder.complete(cfrags): the body is the expression statement self, so
\* the call reads nothing of cfrags, changes nothing of the work order and
\* returns None
complete(wo, cfrags) == [exc |-> None, value |-> None, wo |-> wo]

NotParsed == [proxy |-> None, payload |-> <<>>, exc |-> None, wo |-> NoWorkOrder]

\* the lists of pfrags a work order may ask for
PfragLists == UNION {[1..k -> 1..MaxPfrags] : k \in 0..MaxPfrags}

\* payloads a proxy may be handed that no WorkOrder.payload() produced: the
\* fields of work order payloads recombined, signed by Bob or by Mallory, and
\* a payload cut short
Signers == {Bob, Mallory}

ForgedPayloads ==
    {SealSign(s, Literal("wo:") \o interface_dht_key(u1)) \o SealBytes(k)
         \o PackedReceiptAndPfrags(Literal("wo:") \o interface_dht_key(u2), pfrags) :
         s \in Signers, k \in Signers, u1 \in Ursulas, u2 \in Ursulas, pfrags \in {<<>>, <<1>>}}
    \cup {SealSign(s, Literal("wo:") \o interface_dht_key(u)) : s \in Signers, u \in Ursulas}

\* no encrypt_payload_for_ursula call made yet on a fresh Contract
NotBuilt == [called |-> FALSE, exc |-> None, value |-> <<>>, encrypt_for_calls |-> <<>>]

\* no complete call made yet
NotCompleted == [called |-> FALSE, requested |-> 0, cfrags |-> <<>>, exc |-> None,
                 value |-> None, wo |-> NoWorkOrder]

\* no comparison made yet
NotCompared == [called |-> FALSE, wo |-> NoWorkOrder, other |-> NoWorkOrder, equal |-> FALSE]

NotReceived ==
    [proxy |-> None, payload |-> <<>>, exc |-> None, checked |-> FALSE,
     verified |-> FALSE, contract |-> NoContractObject]

VARIABLES
    contracts,          \* the Contract objects created so far, by identity
    active_contracts,   \* Policy._active_contracts: kfrag -> Contract identity
    treasure_map,       \* Policy.treasure_map
    pc,                 \* the call in progress: "idle", "find" or "enact"
    pos,                \* position of the running loop in self.kfrags
    find_contract,      \* the contract argument of the running find_n_ursulas
    last_response,      \* what find_ursula gave the last iteration of the running find_n_ursulas
    sent,               \* enact_policy calls of the current or last enact, each with its outcome
    result,             \* the last find_n_ursulas, enact or publish_treasure_map call and how it ended
    enacted,            \* whether the last enact returned without raising
    dht                 \* alice.server.set calls, in order

policy_vars == <<contracts, active_contracts, treasure_map, pc, pos, find_contract,
                 last_response, sent, result, enacted, dht>>

VARIABLES
    order,              \* the WorkOrder Bob constructed last
    wire,               \* the work order payload on its way to a proxy
    parsed              \* the last from_rest_payload call at a proxy and how it ended

work_order_vars == <<order, wire, parsed>>

VARIABLES
    offer,              \* the Contract whose payload Alice sent last
    group_payload,      \* the contract payload on its way to a proxy
    known_actors,       \* per Ursula, the actors learn_about_actor taught her
    received,           \* the last from_ursula call at a proxy: whether the signature was
                        \* checked, what the check gave, and how the call ended
    built               \* the last encrypt_payload_for_ursula call on a Contract fresh from
                        \* craft_offer: the alice.encrypt_for calls it made and how it ended

offer_vars == <<offer, group_payload, known_actors, received, built>>

VARIABLES
    completion,         \* the last complete call: the work order, the cfrags and how it ended
    compared            \* the last == of two work orders and what it gave

fulfil_vars == <<completion, compared>>

\* what the calls on the Policy and the PolicyGroup leave alone
others == <<work_order_vars, offer_vars, fulfil_vars>>

vars == <<policy_vars, work_order_vars, offer_vars, fulfil_vars>>

Init ==
    /\ contracts = <<>>
    /\ active_contracts = [k \in 1..MaxN |-> NoContract]
    /\ treasure_map = <<>>
    /\ pc = "idle"
    /\ pos = 0
    /\ find_contract = NoContract
    /\ last_response = [kind |-> None]
    /\ sent = <<>>
    /\ result = [op |-> None, exc |-> None]
    /\ enacted = FALSE
    /\ dht = <<>>
    /\ order = NoWorkOrder
    /\ wire = <<>>
    /\ parsed = NotParsed
    /\ offer = NoContractObject
    /\ group_payload = <<>>
    /\ known_actors = [u \in Ursulas |-> {}]
    /\ received = NotReceived
    /\ built = NotBuilt
    /\ completion = NotCompleted
    /\ compared = NotCompared

\* ------------------------------------------------------------------------
\* Policy.craft_offer
\* ------------------------------------------------------------------------
CraftOffer(deposit, expiration) ==
    /\ pc = "idle"
    /\ Len(contracts) < MaxContracts
    /\ contracts' = Append(contracts, craft_offer(deposit, expiration))
    /\ UNCHANGED <<active_contracts, treasure_map, pc, pos, find_contract,
                   last_response, sent, result, enacted, dht>>
    /\ UNCHANGED others

\* ------------------------------------------------------------------------
\* Policy.find_n_ursulas(networky_stuff, contract): one step per iteration of
\* the loop over self.kfrags, that is per networky_stuff.find_ursula call
\* ------------------------------------------------------------------------
NotEnough == [kind |-> "NotEnoughQualifiedUrsulas", ursula |-> None, was_accepted |-> FALSE]

FindResponses ==
    {NotEnough} \cup
    {[kind |-> "found", ursula |-> u, was_accepted |-> b] : u \in Ursulas, b \in BOOLEAN}

\* lines 291-298 with a handler that lets NotEnoughQualifiedUrsulas escape
FindIterationRaises(cs, ac, c, kfrag, response) ==
    IF response.kind = "NotEnoughQualifiedUrsulas"
    THEN [contracts |-> cs, active_contracts |-> ac, exc |-> "NotEnoughQualifiedUrsulas"]
    ELSE IF response.was_accepted
         THEN [contracts |-> [cs EXCEPT ![c] = [@ EXCEPT !.kfrag = kfrag, !.ursula = response.ursula,
                                                        !.negotiation_result = "accepted"]],
               active_contracts |-> [ac EXCEPT ![kfrag] = c],
               exc |-> None]
         ELSE [contracts |-> cs, active_contracts |-> ac, exc |-> None]

\* the body of the loop, lines 291-298, on the Contract objects cs and the
\* mapping ac, for the contract argument c
FindIteration(cs, ac, c, kfrag, response) ==
    IF response.kind = "NotEnoughQualifiedUrsulas"
    THEN \* except networky_stuff.NotEnoughQualifiedUrsulas: pass
         [contracts |-> cs, active_contracts |-> ac, exc |-> None]
    ELSE IF response.was_accepted
         THEN [contracts |-> [cs EXCEPT ![c] = activate(@, kfrag, response.ursula, "accepted")],
               active_contracts |-> [ac EXCEPT ![kfrag] = c],
               exc |-> None]
         ELSE [contracts |-> cs, active_contracts |-> ac, exc |-> None]

FindBegin(c) ==
    /\ pc = "idle"
    /\ c \in 1..Len(contracts)
    /\ pc' = "find"
    /\ pos' = 1
    /\ find_contract' = c
    /\ result' = [op |-> "find_n_ursulas", exc |-> "running"]
    /\ last_response' = [kind |-> None]
    /\ UNCHANGED <<contracts, active_contracts, treasure_map, sent, enacted, dht>>
    /\ UNCHANGED others

FindStep(response) ==
    /\ pc = "find"
    /\ pos <= MaxN
    /\ LET r == FindIteration(contracts, active_contracts, find_contract, kfrags[pos], response)
       IN /\ contracts' = r.contracts
          /\ active_contracts' = r.active_contracts
          /\ last_response' = response
          /\ IF r.exc # None
             THEN /\ pc' = "idle"
                  /\ result' = [op |-> "find_n_ursulas", exc |-> r.exc]
                  /\ pos' = pos
             ELSE /\ pc' = "find"
                  /\ result' = result
                  /\ pos' = pos + 1
    /\ UNCHANGED <<treasure_map, find_contract, sent, enacted, dht>>
    /\ UNCHANGED others

\* the loop is exhausted: find_n_ursulas returns None
FindReturn ==
    /\ pc = "find"
    /\ pos = MaxN + 1
    /\ pc' = "idle"
    /\ result' = [op |-> "find_n_ursulas", exc |-> None]
    /\ last_response' = [kind |-> None]
    /\ UNCHANGED <<contracts, active_contracts, treasure_map, pos, find_contract, sent,
                   enacted, dht>>
    /\ UNCHANGED others

\* ------------------------------------------------------------------------
\* Policy.enact(networky_stuff): one step per iteration of the loop over
\* self.kfrags, that is per networky_stuff.enact_policy call
\* ------------------------------------------------------------------------
\* what networky_stuff.enact_policy does: it raises, or returns a response
EnactOutcomes == {"PeerUnreachable", "ack", "nack"}

\* line 271 as it would be with a TreasureMap and the contract's own ursula
PolicyTreasureMapAddUrsulaAppends(ids, contract) ==
    [exc |-> None, ids |-> Append(ids, interface_dht_key(contract.ursula))]

\* self.treasure_map.add_ursula(policy.ursula), line 271: self.treasure_map
\* is the list of line 205, which has no add_ursula (and policy is no name of
\* the scope): the attribute lookup raises AttributeError
PolicyTreasureMapAddUrsula(ids, contract) ==
    [exc |-> "AttributeError", ids |-> ids]

\* the body of the loop, lines 263-271
EnactIteration(cs, ac, ids, kfrag, outcome) ==
    IF ac[kfrag] = NoContract
    THEN \* self._active_contracts[kfrag] raises KeyError
         [exc |-> "KeyError", ids |-> ids, sent |-> <<>>]
    ELSE LET contract == cs[ac[kfrag]]
             full_payload == FullPayload(contract)
             call == [ursula |-> contract.ursula, hrac |-> hrac, payload |-> full_payload,
                      kfrag |-> kfrag, outcome |-> outcome]
         IN IF outcome = "PeerUnreachable"
            THEN [exc |-> "PeerUnreachable", ids |-> ids, sent |-> <<call>>]
            ELSE LET added == PolicyTreasureMapAddUrsula(ids, contract)
                 IN [exc |-> added.exc, ids |-> added.ids, sent |-> <<call>>]

EnactBegin ==
    /\ pc = "idle"
    /\ pc' = "enact"
    /\ pos' = 1
    /\ sent' = <<>>
    /\ result' = [op |-> "enact", exc |-> "running"]
    /\ enacted' = FALSE
    /\ UNCHANGED <<contracts, active_contracts, treasure_map, find_contract, last_response, dht>>
    /\ UNCHANGED others

EnactStep(outcome) ==
    /\ pc = "enact"
    /\ LET r == EnactIteration(contracts, active_contracts, treasure_map, kfrags[pos], outcome)
       IN /\ treasure_map' = r.ids
          /\ sent' = sent \o r.sent
          /\ IF r.exc # None
             THEN /\ pc' = "idle"
                  /\ result' = [op |-> "enact", exc |-> r.exc]
                  /\ pos' = pos
                  /\ enacted' = FALSE
             ELSE IF pos = MaxN
                  THEN /\ pc' = "idle"
                       /\ result' = [op |-> "enact", exc |-> None]
                       /\ pos' = pos
                       /\ enacted' = TRUE
                  ELSE /\ pc' = "enact"
                       /\ result' = result
                       /\ pos' = pos + 1
                       /\ enacted' = FALSE
    /\ UNCHANGED <<contracts, active_contracts, find_contract, last_response, dht>>
    /\ UNCHANGED others

\* ------------------------------------------------------------------------
\* TreasureMap and PolicyGroup
\* ------------------------------------------------------------------------
\* TreasureMap.packed_payload()
packed_payload(ids) == msgpack_dumps_list(ids)

\* TreasureMap.add_ursula(ursula)
add_ursula(ids, ursula) == Append(ids, interface_dht_key(ursula))

\* PolicyGroup.treasure_map: the TreasureMap() of PolicyGroup.__init__, whose
\* ids start as [] and which no method of PolicyGroup or Policy adds to
GroupTreasureMapIds == <<>>

\* self.hrac() as it would be with Policy.hrac available to PolicyGroup
PolicyGroupHracDefined == [exc |-> None, value |-> hrac]

\* self.hrac() inside PolicyGroup: the class defines hash, pfrag,
\* treasure_map_dht_key, id and publish_treasure_map, and no hrac (hrac and
\* hrac_for are Policy's), so the attribute lookup raises AttributeError
PolicyGroupHrac == [exc |-> "AttributeError", value |-> <<>>]

\* PolicyGroup.treasure_map_dht_key(), given the value of self.hrac()
treasure_map_dht_key(hrac_value) == hash(SealBytes(Alice) \o hrac_value)

\* PolicyGroup.publish_treasure_map(): how it ends and the alice.server.set
\* calls it makes
publish_treasure_map(ids) ==
    LET encrypted == encrypt_for(Alice, Bob, packed_payload(ids))
        h == PolicyGroupHrac
    IN IF h.exc # None
       THEN [exc |-> h.exc, set |-> <<>>]
       ELSE LET signature_for_ursula == SealSign(Alice, h.value)
                dht_value == signature_for_ursula \o SealBytes(Alice) \o h.value
                                 \o msgpack_dumps(encrypted.ciphertext)
                dht_key == treasure_map_dht_key(h.value)
            IN [exc |-> None,
                set |-> <<[key |-> dht_key, value |-> Literal("trmap") \o dht_value]>>]

PublishTreasureMap ==
    /\ pc = "idle"
    /\ Len(dht) < MaxPublish
    /\ LET r == publish_treasure_map(GroupTreasureMapIds)
       IN /\ dht' = dht \o r.set
          /\ result' = [op |-> "publish_treasure_map", exc |-> r.exc]
    /\ UNCHANGED <<contracts, active_contracts, treasure_map, pc, pos, find_contract,
                   last_response, sent, enacted>>
    /\ UNCHANGED others

\* ------------------------------------------------------------------------
\* Work orders: Bob constructs and serializes, a proxy parses
\* ------------------------------------------------------------------------
\* Bob constructs a WorkOrder for ursula and puts its payload() on the wire
ConstructedByBob(pfrags, ursula) ==
    /\ order' = constructed_by_bob(hrac, pfrags, interface_dht_key(ursula), Bob)
    /\ wire' = WorkOrderPayload(order')
    /\ UNCHANGED parsed
    /\ UNCHANGED <<policy_vars, offer_vars, fulfil_vars>>

\* somebody else puts a payload on the wire
SendForged(payload) ==
    /\ order' = NoWorkOrder
    /\ wire' = payload
    /\ UNCHANGED parsed
    /\ UNCHANGED <<policy_vars, offer_vars, fulfil_vars>>

\* the proxy ursula calls WorkOrder.from_rest_payload on what it received
FromRestPayload(ursula) ==
    /\ wire # <<>>
    /\ LET r == from_rest_payload(hrac, wire)
       IN parsed' = [proxy |-> ursula, payload |-> wire, exc |-> r.exc, wo |-> r.wo]
    /\ UNCHANGED <<order, wire>>
    /\ UNCHANGED <<policy_vars, offer_vars, fulfil_vars>>

\* the cfrags a proxy may return, each named by the pfrag it was made from
CfragLists == PfragLists

\* Bob calls complete(cfrags) on the work order he constructed
Complete(cfrags) ==
    /\ order # NoWorkOrder
    /\ LET r == complete(order, cfrags)
       IN completion' = [called |-> TRUE, requested |-> WorkOrderLen(order), cfrags |-> cfrags,
                         exc |-> r.exc, value |-> r.value, wo |-> r.wo]
    /\ UNCHANGED compared
    /\ UNCHANGED <<policy_vars, work_order_vars, offer_vars>>

\* the work orders the one Bob constructed is compared with: constructed by
\* Bob or by Mallory, for either proxy, for another policy, asking for one pfrag
OtherHracs == {hrac_for(Alice, Mallory, Uri)}

OtherPfragLists == {<<1>>}

CompareOrders(kfrag_hrac, pfrags, ursula, bob) ==
    /\ order # NoWorkOrder
    /\ LET other == constructed_by_bob(kfrag_hrac, pfrags, interface_dht_key(ursula), bob)
       IN compared' = [called |-> TRUE, wo |-> order, other |-> other,
                       equal |-> WorkOrderEq(order, other)]
    /\ UNCHANGED completion
    /\ UNCHANGED <<policy_vars, work_order_vars, offer_vars>>

\* ------------------------------------------------------------------------
\* Contract payloads: Alice sends, a proxy reconstructs
\* ------------------------------------------------------------------------
\* group payloads a proxy may be handed that Alice did not send: they name
\* the key of one actor and carry a cleartext signed by another, or a
\* signature over another kfrag than the one carried; and an empty payload
ForgedGroupPayloads ==
    {SealBytes(named) \o msgpack_dumps(
         <<Atom("Ciphertext", u, 0,
                SealSign(signer, KFragBytes(k1) \o Literal("This might be a ChallengePack"))
                    \o KFragBytes(k2) \o Literal("This might be a ChallengePack"))>>) :
         named \in {Alice, Mallory}, signer \in {Alice, Mallory}, u \in Ursulas,
         k1 \in {kfrags[1]}, k2 \in {kfrags[1], kfrags[MaxN]}}
    \cup {<<>>}

\* Alice activates a Contract for kfrag with ursula and sends its payload, as
\* find_n_ursulas and enact do for one fragment
SendContractPayload(deposit, expiration, kfrag, ursula) ==
    /\ offer' = activate(craft_offer(deposit, expiration), kfrag, ursula, "accepted")
    /\ group_payload' = FullPayload(offer')
    /\ UNCHANGED <<known_actors, received, built>>
    /\ UNCHANGED <<policy_vars, work_order_vars, fulfil_vars>>

\* somebody else sends a group payload
SendForgedGroupPayload(payload) ==
    /\ offer' = NoContractObject
    /\ group_payload' = payload
    /\ UNCHANGED <<known_actors, received, built>>
    /\ UNCHANGED <<policy_vars, work_order_vars, fulfil_vars>>

\* the proxy ursula calls Contract.from_ursula on what it received
FromUrsula(ursula) ==
    /\ LET r == from_ursula(group_payload, ursula)
       IN /\ received' = [proxy |-> ursula, payload |-> group_payload, exc |-> r.exc,
                          checked |-> r.checked, verified |-> r.verified,
                          contract |-> r.contract]
          /\ known_actors' =
                 IF r.learned = None THEN known_actors
                 ELSE [known_actors EXCEPT ![ursula] = @ \cup {r.learned}]
    /\ UNCHANGED <<offer, group_payload, built>>
    /\ UNCHANGED <<policy_vars, work_order_vars, fulfil_vars>>

\* what alice.encrypt_for does when handed None as the recipient: nothing in
\* this module says, so it may return or raise
EncryptForNoneOutcomes == {"returns", "raises"}

\* Contract.encrypt_payload_for_ursula() on a Contract whose ursula is still
\* None: lines 45-49 call self.alice.encrypt_for(self.ursula, self.payload())
\* whatever self.ursula is
encrypt_payload_for_no_ursula(contract, outcome) ==
    LET call == [alice |-> contract.alice, recipient |-> contract.ursula,
                 cleartext |-> ContractPayload(contract)]
    IN IF outcome = "raises"
       THEN [called |-> TRUE, exc |-> "EncryptForError", value |-> <<>>,
             encrypt_for_calls |-> <<call>>]
       ELSE [called |-> TRUE, exc |-> None, value |-> encrypt_payload_for_ursula(contract),
             encrypt_for_calls |-> <<call>>]

\* Alice calls encrypt_payload_for_ursula on a Contract fresh from craft_offer
EncryptPayloadBeforeActivation(deposit, expiration, outcome) ==
    /\ built' = encrypt_payload_for_no_ursula(craft_offer(deposit, expiration), outcome)
    /\ UNCHANGED <<offer, group_payload, known_actors, received>>
    /\ UNCHANGED <<policy_vars, work_order_vars, fulfil_vars>>

Next ==
    \/ \E d \in Deposits, e \in Expirations : CraftOffer(d, e)
    \/ \E c \in 1..MaxContracts : FindBegin(c)
    \/ \E response \in FindResponses : FindStep(response)
    \/ FindReturn
    \/ EnactBegin
    \/ \E outcome \in EnactOutcomes : EnactStep(outcome)
    \/ PublishTreasureMap

WorkOrderNext ==
    \/ \E pfrags \in PfragLists, u \in Ursulas : ConstructedByBob(pfrags, u)
    \/ \E payload \in ForgedPayloads : SendForged(payload)
    \/ \E u \in Ursulas : FromRestPayload(u)

Spec == Init /\ [][Next]_vars

SpecWorkOrder == Init /\ [][WorkOrderNext]_vars

OfferNext ==
    \/ \E d \in Deposits, e \in Expirations, k \in 1..MaxN, u \in Ursulas :
           SendContractPayload(d, e, k, u)
    \/ \E payload \in ForgedGroupPayloads : SendForgedGroupPayload(payload)
    \/ \E u \in Ursulas : FromUrsula(u)
    \/ \E d \in Deposits, e \in Expirations, outcome \in EncryptForNoneOutcomes :
           EncryptPayloadBeforeActivation(d, e, outcome)

SpecOffer == Init /\ [][OfferNext]_vars

\* ------------------------------------------------------------------------
\* The calls on the Policy when one proxy never answers
\* ------------------------------------------------------------------------
\* the proxy whose enact_policy call neither returns nor raises
Unresponsive == "ursula2"

\* an iteration of enact ends when self._active_contracts[kfrag] raises or
\* when networky_stuff.enact_policy, called with no timeout and waited for
\* in line (lines 266-268), returns or raises
EnactStepAnswered(outcome) ==
    /\ pc = "enact"
    /\ active_contracts[kfrags[pos]] # NoContract
           => contracts[active_contracts[kfrags[pos]]].ursula # Unresponsive
    /\ EnactStep(outcome)

UnresponsiveNext ==
    \/ \E d \in Deposits, e \in Expirations : CraftOffer(d, e)
    \/ \E c \in 1..MaxContracts : FindBegin(c)
    \/ \E response \in FindResponses : FindStep(response)
    \/ FindReturn
    \/ EnactBegin
    \/ \E outcome \in EnactOutcomes : EnactStepAnswered(outcome)
    \/ PublishTreasureMap

\* a call that has begun runs on: each iteration whose network call is
\* answered is taken, and so is the return
SpecUnresponsive ==
    /\ Init
    /\ [][UnresponsiveNext]_vars
    /\ WF_vars(\E response \in FindResponses : FindStep(response))
    /\ WF_vars(FindReturn)
    /\ WF_vars(\E outcome \in EnactOutcomes : EnactStepAnswered(outcome))

CompletionNext ==
    \/ \E pfrags \in PfragLists, u \in Ursulas : ConstructedByBob(pfrags, u)
    \/ \E cfrags \in CfragLists : Complete(cfrags)

SpecCompletion == Init /\ [][CompletionNext]_vars

EqualityNext ==
    \/ \E pfrags \in PfragLists, u \in Ursulas : ConstructedByBob(pfrags, u)
    \/ \E h \in OtherHracs, pfrags \in OtherPfragLists, u \in Ursulas, b \in Signers :
           CompareOrders(h, pfrags, u, b)

SpecEquality == Init /\ [][EqualityNext]_vars

\* ------------------------------------------------------------------------
\* Properties of Policy.enact, Policy.find_n_ursulas and
\* PolicyGroup.publish_treasure_map
\* ------------------------------------------------------------------------
AllActive == \A i \in 1..MaxN : active_contracts[kfrags[i]] # NoContract

EnactEnded == pc = "idle" /\ result.op = "enact"

TransmissionFailed == \E i \in 1..Len(sent) : sent[i].outcome = "PeerUnreachable"

C2_IncompleteFailsBeforeTransmission ==
    (EnactEnded /\ ~AllActive)
        => (result.exc = "KeyError" /\ sent = <<>> /\ treasure_map = <<>>)

\* C3: when every fragment has an active Contract and every transmission
\* succeeds, enact returns normally and the treasure map has exactly n
\* entries, the i-th being the discovery identifier of the proxy bound in the
\* Contract of the i-th fragment.
C3_EnactYieldsFullMap ==
    (EnactEnded /\ AllActive /\ ~TransmissionFailed)
        => /\ result.exc = None
           /\ Len(treasure_map) = MaxN
           /\ \A i \in 1..MaxN :
                  i <= Len(treasure_map) =>
                      treasure_map[i] =
                          interface_dht_key(contracts[active_contracts[kfrags[i]]].ursula)

C9_PublishedValue ==
    (pc = "idle" /\ result.op = "publish_treasure_map")
        => /\ Len(dht) = 1
           /\ dht[1].key = hash(SealBytes(Alice) \o hrac)
           /\ dht[1].value =
                  SealSign(Alice, hrac) \o SealBytes(Alice) \o hrac
                      \o msgpack_dumps(encrypt_for(Alice, Bob,
                                                   packed_payload(GroupTreasureMapIds)).ciphertext)

\* C10: an iteration of find_n_ursulas in which find_ursula raises
\* NotEnoughQualifiedUrsulas records no Contract for its fragment, changes no
\* recorded Contract, and goes on to the next fragment; find_n_ursulas never
\* ends with an error.
InsufficientStep == pc = "find" /\ pos <= MaxN /\ last_response' = NotEnough

C10_InsufficientIsRecoverable ==
    /\ []((pc = "idle" /\ result.op = "find_n_ursulas") => result.exc = None)
    /\ [][InsufficientStep =>
              /\ active_contracts' = active_contracts
              /\ contracts' = contracts
              /\ pc' = "find"
              /\ pos' = pos + 1]_vars

C10_Witness ==
    /\ pc = "find"
    /\ pos > 1
    /\ last_response = NotEnough
    /\ active_contracts[kfrags[pos - 1]] = NoContract
    /\ \E k \in 1..MaxN : active_contracts[k] # NoContract

\* a Contract is active once activate has bound a proxy in it
IsActive(contract) == contract.ursula # None

\* an iteration of find_n_ursulas whose result was accepted calls activate on
\* the contract argument, here one that is active already
ReactivationStep ==
    /\ pc = "find"
    /\ pos <= MaxN
    /\ last_response'.kind = "found"
    /\ last_response'.was_accepted
    /\ IsActive(contracts[find_contract])

\* C11: calling activate on a Contract that is already active fails with
\* InvalidTransition and leaves the kfrag and the proxy bound in it unchanged.
C11_ActivateOnlyBeforeActive ==
    [][ReactivationStep =>
           /\ contracts'[find_contract].kfrag = contracts[find_contract].kfrag
           /\ contracts'[find_contract].ursula = contracts[find_contract].ursula
           /\ result'.exc = "InvalidTransition"]_vars

\* C16: between calls, the Contract recorded as active for a kfrag has that
\* kfrag bound in it, and no Contract object is recorded for two kfrags.
C16_OneContractPerFragment ==
    pc = "idle" =>
        /\ \A i \in 1..MaxN :
               active_contracts[kfrags[i]] # NoContract
                   => contracts[active_contracts[kfrags[i]]].kfrag = kfrags[i]
        /\ \A i, j \in 1..MaxN :
               (/\ i # j
                /\ active_contracts[kfrags[i]] # NoContract
                /\ active_contracts[kfrags[j]] # NoContract)
                   => active_contracts[kfrags[i]] # active_contracts[kfrags[j]]

\* an iteration of enact whose enact_policy call got a response
TransmissionStep == pc = "enact" /\ Len(sent') = Len(sent) + 1

FindIterationStep == pc = "find" /\ pos <= MaxN /\ pos' = pos + 1

\* C18: find_n_ursulas makes no find_ursula call for a kfrag that has an
\* active Contract and leaves the Contract recorded for such a kfrag, and the
\* kfrag and proxy bound in it, as they were; a kfrag gains an active Contract
\* only in an iteration whose result was accepted.
C18_OnlyUnresolvedTouched ==
    [][FindIterationStep =>
           /\ active_contracts[kfrags[pos]] = NoContract
           /\ \A i \in 1..MaxN :
                  active_contracts[kfrags[i]] # NoContract =>
                      /\ active_contracts'[kfrags[i]] = active_contracts[kfrags[i]]
                      /\ contracts'[active_contracts[kfrags[i]]].kfrag
                             = contracts[active_contracts[kfrags[i]]].kfrag
                      /\ contracts'[active_contracts[kfrags[i]]].ursula
                             = contracts[active_contracts[kfrags[i]]].ursula
           /\ \A i \in 1..MaxN :
                  (/\ active_contracts[kfrags[i]] = NoContract
                   /\ active_contracts'[kfrags[i]] # NoContract)
                      => (/\ i = pos
                          /\ last_response'.kind = "found"
                          /\ last_response'.was_accepted)]_vars

\* a craft_offer call: one more Contract object
CraftOfferStep == Len(contracts') = Len(contracts) + 1

\* C19: craft_offer(deposit, expiration) yields a Contract with no proxy and
\* the unknown kfrag, whose expiration is the expiration given, whose deposit
\* is the deposit given and whose alice is the Policy's alice.
C19_CraftOfferFields ==
    [][CraftOfferStep =>
           LET c == contracts'[Len(contracts')]
           IN \E d \in Deposits, e \in Expirations :
                  /\ c.alice = Alice
                  /\ c.ursula = None
                  /\ c.kfrag = UNKNOWN_KFRAG
                  /\ c.expiration = e
                  /\ c.deposit = d]_vars

\* C14: every enact call and every find_n_ursulas call ends, even when a
\* proxy never answers; the call that got no answer is given up and ends as
\* ProxyUnresponsive.
C14_CallsTerminate ==
    /\ (pc = "enact") ~> (pc = "idle")
    /\ (pc = "find") ~> (pc = "idle")

\* ------------------------------------------------------------------------
\* Properties of WorkOrder.constructed_by_bob and WorkOrder.from_rest_payload
\* ------------------------------------------------------------------------
\* C5: the payload of a WorkOrder that Bob constructed for proxy P is rejected
\* with the authentication error when a proxy Q other than P parses it.
C5_BoundToOneProxy ==
    \A p \in Ursulas, pfrags \in PfragLists :
        (/\ parsed.proxy # None
         /\ parsed.proxy # p
         /\ parsed.payload =
                WorkOrderPayload(constructed_by_bob(hrac, pfrags, interface_dht_key(p), Bob)))
            => (parsed.exc = "ValueError" /\ parsed.wo = NoWorkOrder)

\* C6: from_rest_payload returns a WorkOrder only if the signature the payload
\* carries verifies over the receipt bytes it carries against the public key
\* it carries; a well-formed payload whose signature does not verify ends in
\* the authentication error and yields no WorkOrder.
CarriedSignatureVerifies(payload) ==
    /\ Len(payload) = 3
    /\ payload[3].t = "msgpack.array"
    /\ Len(payload[3].m) = 2
    /\ payload[1].t = "Signature"
    /\ payload[2].t = "PublicKey"
    /\ payload[1].a = payload[2].a
    /\ payload[1].m = payload[3].m[1].m

C6_NeverUnverified ==
    parsed.proxy # None =>
        /\ parsed.exc = None =>
               /\ CarriedSignatureVerifies(parsed.payload)
               /\ parsed.wo.receipt_bytes = parsed.payload[3].m[1].m
               /\ parsed.wo.receipt_signature = <<parsed.payload[1]>>
               /\ parsed.wo.bob = parsed.payload[2].a
        /\ ~CarriedSignatureVerifies(parsed.payload) =>
               /\ parsed.exc # None
               /\ parsed.wo = NoWorkOrder
               /\ Len(parsed.payload) = 3 => parsed.exc = "ValueError"

C6_Witness ==
    /\ parsed.proxy # None
    /\ Len(parsed.payload) = 3
    /\ ~CarriedSignatureVerifies(parsed.payload)
    /\ parsed.exc = "ValueError"
    /\ parsed.wo = NoWorkOrder

\* C15: from_rest_payload on the payload() of a work order Bob constructed
\* returns a work order with the same receipt bytes, the same receipt
\* signature, the same public key of Bob and the same pfrags in the same order.
C15_WorkOrderRoundTrip ==
    (/\ parsed.proxy # None
     /\ order # NoWorkOrder
     /\ parsed.payload = WorkOrderPayload(order))
        => /\ parsed.exc = None
           /\ parsed.wo.receipt_bytes = order.receipt_bytes
           /\ parsed.wo.receipt_signature = order.receipt_signature
           /\ SealBytes(parsed.wo.bob) = SealBytes(order.bob)
           /\ parsed.wo.pfrags = order.pfrags

C15_Witness ==
    /\ parsed.proxy # None
    /\ order # NoWorkOrder
    /\ parsed.payload = WorkOrderPayload(order)
    /\ Len(order.pfrags) = 2
    /\ order.pfrags[1] # order.pfrags[2]
    /\ parsed.exc = None
    /\ parsed.wo.pfrags = order.pfrags

\* ------------------------------------------------------------------------
\* Properties of WorkOrder.complete
\* ------------------------------------------------------------------------
\* C13: a complete call yields verified only if as many cfrags came back as
\* pfrags were asked for; a complete call with another number of cfrags ends
\* in rejection (raised or returned), never in verified.
C13_CompletionCountsMatch ==
    completion.called =>
        /\ completion.value = "verified" => Len(completion.cfrags) = completion.requested
        /\ Len(completion.cfrags) # completion.requested =>
               /\ completion.value # "verified"
               /\ (completion.exc = "rejected" \/ completion.value = "rejected")

\* C20: two work orders compare equal exactly when their receipt bytes are
\* equal and their receipt signatures are equal; so two work orders that the
\* same Bob constructed for the same proxy compare equal whatever their
\* kfrag_hrac and their pfrags.
C20_EqualityOnReceiptOnly ==
    compared.called =>
        /\ compared.equal <=>
               /\ compared.wo.receipt_bytes = compared.other.receipt_bytes
               /\ compared.wo.receipt_signature = compared.other.receipt_signature
        /\ (/\ compared.wo.bob = compared.other.bob
            /\ compared.wo.ursula_id = compared.other.ursula_id)
               => compared.equal

C20_Witness ==
    /\ compared.called
    /\ compared.wo.bob = compared.other.bob
    /\ compared.wo.ursula_id = compared.other.ursula_id
    /\ compared.wo.kfrag_hrac # compared.other.kfrag_hrac
    /\ compared.wo.pfrags # compared.other.pfrags
    /\ compared.equal

\* ------------------------------------------------------------------------
\* Properties of Contract.encrypt_payload_for_ursula and Contract.from_ursula
\* ------------------------------------------------------------------------
\* C7: whenever the check of the owner's signature on the decrypted payload
\* fails, from_ursula fails for that reason and returns no Contract; it
\* returns a Contract only when the check succeeded.
C7_RejectsUnverifiedSender ==
    received.proxy # None =>
        /\ (received.checked /\ ~received.verified) =>
               (received.exc = "UnverifiedSender" /\ received.contract.alice = None)
        /\ received.exc = None => (received.checked /\ received.verified)

\* C8: the payload Alice sends for an activated Contract, reconstructed by
\* from_ursula at the proxy bound in it, yields a Contract with the same kfrag
\* and with the challenge marker bytes as its challenge pack.
C8_OfferRoundTrip ==
    (/\ received.proxy # None
     /\ offer.ursula # None
     /\ received.proxy = offer.ursula
     /\ received.payload = FullPayload(offer))
        => /\ received.exc = None
           /\ received.contract.kfrag = offer.kfrag
           /\ received.contract.encrypted_challenge_pack
                  = Literal("This might be a ChallengePack")

\* C12: encrypt_payload_for_ursula on a Contract that was never activated
\* fails with NoProxyBound, produces no payload, and makes no call of the
\* owner's encrypt_for.
C12_NoPayloadBeforeActivation ==
    built.called =>
        /\ built.exc = "NoProxyBound"
        /\ built.value = <<>>
        /\ built.encrypt_for_calls = <<>>
====
